---------------------------- MODULE Spec2Model ----------------------------
(***************************************************************************)
(* The escrow program of src/src/processor.rs as a state machine.          *)
(*                                                                         *)
(* The state is the ledger the three handlers read and write: the token    *)
(* accounts kept by the token program (the collaborator), the escrow       *)
(* record accounts, and the lamport (storage deposit) balance of every     *)
(* account.  One action per instruction (InitEscrow, Exchange, Cancel);    *)
(* each handler is an operator from a ledger and the instruction's         *)
(* accounts and payload to the ledger it leaves and its ProgramResult,     *)
(* and the host keeps that ledger only when the result is Ok.              *)
(***************************************************************************)
EXTENDS Integers, FiniteSets, TLC

VARIABLES
    ledger,       \* [tok, esc, lam]: the accounts of the ledger
    result,       \* [op, err, escrow]: the invocation the host has just run
                  \* and its ProgramResult; op = "Idle" between invocations
    lockedAtInit, \* per record: the temp account's amount when InitEscrow
                  \* succeeded on it (history, read by no handler)
    nTransfers    \* direct token transfers made so far by the wallets

vars == <<ledger, result, lockedAtInit, nTransfers>>

-----------------------------------------------------------------------------
(* Bounds of the model *)

\* The largest unsigned value of a balance: u64::MAX, scaled down.
U64MAX == 255

\* Direct transfers (funding, third-party deposits) the wallets may make.
MaxTransfers == 1

-----------------------------------------------------------------------------
(* The accounts *)

Wallets == {"alice", "bob"}

\* Pubkey::find_program_address(&[b"escrow"], program_id): one derived
\* address for the program, recomputed by every handler.
PDA == "pda"

NoKey == "none"

TokenAccounts == {"tmpX", "aliceX", "aliceY", "bobX", "bobY"}

EscrowAccounts == {"esc1", "esc2", "esc3"}

\* esc3 is allocated below the rent-exemption threshold.
PoorEscrow == "esc3"

Lamported == Wallets \cup TokenAccounts \cup EscrowAccounts

Mint(t) == IF t \in {"tmpX", "aliceX", "bobX"} THEN "X" ELSE "Y"

ClosedToken == [open |-> FALSE, owner |-> NoKey, amount |-> 0]

\* Escrow::LEN bytes of zeroes: a record account as the system program
\* allocates it.
ZeroEscrow ==
    [data |-> TRUE, is_initialized |-> FALSE, initializer_pubkey |-> NoKey,
     temp_token_account_pubkey |-> NoKey,
     initializer_token_to_receive_account_pubkey |-> NoKey,
     expected_amount |-> 0]

\* The record account after `*escrow_acc.data.borrow_mut() = &mut []`.
DeletedEscrow == [ZeroEscrow EXCEPT !.data = FALSE]

Res(s, err) == [s |-> s, err |-> err]

IsOk(r) == r.err = "Ok"


-----------------------------------------------------------------------------
(* The token program: the collaborator the handlers call into.  An account *)
(* it keeps has a mint, an owner (its authority) and an amount; no account *)
(* of the model has a delegate, a close authority or a frozen state.       *)

TokenProgram == "spl_token"

SystemProgram == "system"

\* AccountInfo::owner: the program that owns the account's data.  A closed
\* token account has no lamports left and is purged by the host.
OwnerProgram(s, k) ==
    IF k \in TokenAccounts /\ s.tok[k].open THEN TokenProgram
    ELSE IF k \in EscrowAccounts /\ s.esc[k].data THEN "escrow"
    ELSE SystemProgram

\* TokenAccount::unpack succeeds on the data of an open token account only.
IsTokenAccount(s, k) == k \in TokenAccounts /\ s.tok[k].open

\* validate_owner of the token program: the authority named by the
\* instruction is the account's owner and carries a signature.
ValidateOwner(owner, authority, signers) ==
    IF owner # authority THEN "TokenError::OwnerMismatch"
    ELSE IF authority \notin signers THEN "MissingRequiredSignature"
    ELSE "Ok"

\* SetAuthority(AccountOwner): reassign the owner of `account`.
TokenSetAuthority(s, account, new_authority, authority, signers) ==
    IF ~IsTokenAccount(s, account) THEN Res(s, "InvalidAccountData")
    ELSE LET v == ValidateOwner(s.tok[account].owner, authority, signers) IN
         IF v # "Ok" THEN Res(s, v)
         ELSE Res([s EXCEPT !.tok[account].owner = new_authority], "Ok")

\* Transfer: move `amount` from `source` to `dest` under `authority`.
TokenTransfer(s, source, dest, authority, signers, amount) ==
    IF ~IsTokenAccount(s, source) \/ ~IsTokenAccount(s, dest)
    THEN Res(s, "InvalidAccountData")
    ELSE IF s.tok[source].amount < amount
    THEN Res(s, "TokenError::InsufficientFunds")
    ELSE IF Mint(source) # Mint(dest)
    THEN Res(s, "TokenError::MintMismatch")
    ELSE LET v == ValidateOwner(s.tok[source].owner, authority, signers) IN
         IF v # "Ok" THEN Res(s, v)
         ELSE IF source = dest THEN Res(s, "Ok")
         ELSE IF s.tok[dest].amount + amount > U64MAX
         THEN Res(s, "TokenError::Overflow")
         ELSE Res([s EXCEPT !.tok[source].amount = @ - amount,
                            !.tok[dest].amount = @ + amount], "Ok")

\* CloseAccount: `account` must be empty; its lamports go to `dest`, its
\* data is wiped, and the host purges it.
TokenCloseAccount(s, account, dest, authority, signers) ==
    IF account = dest THEN Res(s, "InvalidAccountData")
    ELSE IF ~IsTokenAccount(s, account) THEN Res(s, "InvalidAccountData")
    ELSE IF s.tok[account].amount # 0
    THEN Res(s, "TokenError::NonNativeHasBalance")
    ELSE LET v == ValidateOwner(s.tok[account].owner, authority, signers) IN
         IF v # "Ok" THEN Res(s, v)
         ELSE IF s.lam[dest] + s.lam[account] > U64MAX
         THEN Res(s, "TokenError::Overflow")
         ELSE Res([s EXCEPT !.lam[dest] = @ + s.lam[account],
                            !.lam[account] = 0,
                            !.tok[account] = ClosedToken], "Ok")

\* invoke / invoke_signed: the host looks up every account the instruction
\* names among the account infos passed, before the callee runs.  The
\* instructions signed with the seeds name the derived address, so the
\* account supplied as the derived authority must be that address.
HasAccount(pda_acc) == pda_acc = PDA

-----------------------------------------------------------------------------
(* The escrow record codec (crate::state::Escrow, Pack)                    *)

\* Escrow::unpack_unchecked: the data must have the record's length.
UnpackUnchecked(s, e) ==
    IF e \in EscrowAccounts /\ s.esc[e].data THEN "Ok" ELSE "InvalidAccountData"

\* Escrow::unpack: well-formed and initialized, or an error.
Unpack(s, e) ==
    IF UnpackUnchecked(s, e) # "Ok" THEN UnpackUnchecked(s, e)
    ELSE IF ~s.esc[e].is_initialized THEN "UninitializedAccount"
    ELSE "Ok"

\* Rent::minimum_balance(Escrow::LEN), scaled down.
RentExemptMinimum == 2

\* rent.is_exempt(lamports, data_len)
IsExempt(lamports) == lamports >= RentExemptMinimum


-----------------------------------------------------------------------------
(* Processor::process_init_escrow                                          *)

\* InitRecord with the two token account keys stored in each other's field.
InitRecord_swapped(a) ==
    [data |-> TRUE, is_initialized |-> TRUE,
     initializer_pubkey |-> a.initializer,
     temp_token_account_pubkey |-> a.token_to_receive_account,
     initializer_token_to_receive_account_pubkey |-> a.temp_token_account,
     expected_amount |-> a.amount]

\* The record as lines 87-91 populate it.
InitRecord(a) ==
    [data |-> TRUE, is_initialized |-> TRUE,
     initializer_pubkey |-> a.initializer,
     temp_token_account_pubkey |-> a.temp_token_account,
     initializer_token_to_receive_account_pubkey |-> a.token_to_receive_account,
     expected_amount |-> a.amount]

\* InitChecks without the test of lines 82-84.
InitChecks_no_initialized_check(s, a) ==
    IF ~a.is_signer THEN "MissingRequiredSignature"
    ELSE IF OwnerProgram(s, a.token_to_receive_account) # TokenProgram
    THEN "IncorrectProgramId"
    ELSE IF ~IsExempt(s.lam[a.escrow_account]) THEN "NotRentExempt"
    ELSE IF UnpackUnchecked(s, a.escrow_account) # "Ok"
    THEN UnpackUnchecked(s, a.escrow_account)
    ELSE "Ok"

\* InitChecks testing the receiving account's owner before the signature.
InitChecks_owner_check_first(s, a) ==
    IF OwnerProgram(s, a.token_to_receive_account) # TokenProgram
    THEN "IncorrectProgramId"
    ELSE IF ~a.is_signer THEN "MissingRequiredSignature"
    ELSE IF ~IsExempt(s.lam[a.escrow_account]) THEN "NotRentExempt"
    ELSE IF UnpackUnchecked(s, a.escrow_account) # "Ok"
    THEN UnpackUnchecked(s, a.escrow_account)
    ELSE IF s.esc[a.escrow_account].is_initialized
    THEN "AccountAlreadyInitialized"
    ELSE "Ok"

\* The preconditions, in the order the handler tests them.
InitChecks(s, a) ==
    IF ~a.is_signer THEN "MissingRequiredSignature"
    ELSE IF OwnerProgram(s, a.token_to_receive_account) # TokenProgram
    THEN "IncorrectProgramId"
    ELSE IF ~IsExempt(s.lam[a.escrow_account]) THEN "NotRentExempt"
    ELSE IF UnpackUnchecked(s, a.escrow_account) # "Ok"
    THEN UnpackUnchecked(s, a.escrow_account)
    ELSE IF s.esc[a.escrow_account].is_initialized
    THEN "AccountAlreadyInitialized"
    ELSE "Ok"

\* Escrow::pack of the populated record into the record account.
InitPack(s, a) == [s EXCEPT !.esc[a.escrow_account] = InitRecord(a)]

\* InitSetAuthority left out: the handler returns Ok after writing the record.
InitSetAuthority_skipped(s, a) == Res(s, "Ok")

\* invoke(set_authority(temp_token_account, Some(pda), AccountOwner,
\* initializer, [initializer])): the initializer's signature is extended.
InitSetAuthority(s, a) ==
    TokenSetAuthority(s, a.temp_token_account, PDA, a.initializer,
                      {a.initializer})

\* process_init_escrow with the `?` after invoke missing: the result of the
\* set_authority sub-call is dropped.
process_init_escrow_unchecked_set_authority(s, a) ==
    LET c == InitChecks(s, a) IN
    IF c # "Ok" THEN Res(s, c)
    ELSE Res(InitSetAuthority(InitPack(s, a), a).s, "Ok")

process_init_escrow(s, a) ==
    LET c == InitChecks(s, a) IN
    IF c # "Ok" THEN Res(s, c)
    ELSE InitSetAuthority(InitPack(s, a), a)

-----------------------------------------------------------------------------
(* Processor::process_exchange                                             *)

\* ExchangeChecks with the declared amount compared against the record's
\* expected_amount instead of the temp account's amount.
ExchangeChecks_against_record(s, a) ==
    IF ~a.is_signer THEN "MissingRequiredSignature"
    ELSE IF ~IsTokenAccount(s, a.pda_temp_x_acc) THEN "InvalidAccountData"
    ELSE IF Unpack(s, a.escrow_acc) # "Ok" THEN Unpack(s, a.escrow_acc)
    ELSE IF s.esc[a.escrow_acc].temp_token_account_pubkey # a.pda_temp_x_acc
    THEN "InvalidAccountData"
    ELSE IF s.esc[a.escrow_acc].initializer_pubkey # a.initializer_main_acc
    THEN "InvalidAccountData"
    ELSE IF s.esc[a.escrow_acc].initializer_token_to_receive_account_pubkey
            # a.initializer_y_acc
    THEN "InvalidAccountData"
    ELSE IF a.amount_expected_by_taker # s.esc[a.escrow_acc].expected_amount
    THEN "ExpectedAmountMismatch"
    ELSE "Ok"

\* ExchangeChecks without the comparison of lines 211-213.
ExchangeChecks_no_amount_check(s, a) ==
    IF ~a.is_signer THEN "MissingRequiredSignature"
    ELSE IF ~IsTokenAccount(s, a.pda_temp_x_acc) THEN "InvalidAccountData"
    ELSE IF Unpack(s, a.escrow_acc) # "Ok" THEN Unpack(s, a.escrow_acc)
    ELSE IF s.esc[a.escrow_acc].temp_token_account_pubkey # a.pda_temp_x_acc
    THEN "InvalidAccountData"
    ELSE IF s.esc[a.escrow_acc].initializer_pubkey # a.initializer_main_acc
    THEN "InvalidAccountData"
    ELSE IF s.esc[a.escrow_acc].initializer_token_to_receive_account_pubkey
            # a.initializer_y_acc
    THEN "InvalidAccountData"
    ELSE "Ok"

\* ExchangeChecks without the comparison of lines 197-199.
ExchangeChecks_no_receive_check(s, a) ==
    IF ~a.is_signer THEN "MissingRequiredSignature"
    ELSE IF ~IsTokenAccount(s, a.pda_temp_x_acc) THEN "InvalidAccountData"
    ELSE IF Unpack(s, a.escrow_acc) # "Ok" THEN Unpack(s, a.escrow_acc)
    ELSE IF s.esc[a.escrow_acc].temp_token_account_pubkey # a.pda_temp_x_acc
    THEN "InvalidAccountData"
    ELSE IF s.esc[a.escrow_acc].initializer_pubkey # a.initializer_main_acc
    THEN "InvalidAccountData"
    ELSE IF a.amount_expected_by_taker # s.tok[a.pda_temp_x_acc].amount
    THEN "ExpectedAmountMismatch"
    ELSE "Ok"

\* ExchangeChecks without the comparison of lines 189-191.
ExchangeChecks_no_temp_check(s, a) ==
    IF ~a.is_signer THEN "MissingRequiredSignature"
    ELSE IF ~IsTokenAccount(s, a.pda_temp_x_acc) THEN "InvalidAccountData"
    ELSE IF Unpack(s, a.escrow_acc) # "Ok" THEN Unpack(s, a.escrow_acc)
    ELSE IF s.esc[a.escrow_acc].initializer_pubkey # a.initializer_main_acc
    THEN "InvalidAccountData"
    ELSE IF s.esc[a.escrow_acc].initializer_token_to_receive_account_pubkey
            # a.initializer_y_acc
    THEN "InvalidAccountData"
    ELSE IF a.amount_expected_by_taker # s.tok[a.pda_temp_x_acc].amount
    THEN "ExpectedAmountMismatch"
    ELSE "Ok"

\* The preconditions, in the order the handler tests them.
ExchangeChecks(s, a) ==
    IF ~a.is_signer THEN "MissingRequiredSignature"
    ELSE IF ~IsTokenAccount(s, a.pda_temp_x_acc) THEN "InvalidAccountData"
    ELSE IF Unpack(s, a.escrow_acc) # "Ok" THEN Unpack(s, a.escrow_acc)
    ELSE IF s.esc[a.escrow_acc].temp_token_account_pubkey # a.pda_temp_x_acc
    THEN "InvalidAccountData"
    ELSE IF s.esc[a.escrow_acc].initializer_pubkey # a.initializer_main_acc
    THEN "InvalidAccountData"
    ELSE IF s.esc[a.escrow_acc].initializer_token_to_receive_account_pubkey
            # a.initializer_y_acc
    THEN "InvalidAccountData"
    ELSE IF a.amount_expected_by_taker # s.tok[a.pda_temp_x_acc].amount
    THEN "ExpectedAmountMismatch"
    ELSE "Ok"

\* TransferToInitializer moving the amount of the instruction's payload.
TransferToInitializer_payload_amount(s, a, escrow_info) ==
    TokenTransfer(s, a.taker_y_acc, a.initializer_y_acc, a.taker_main_acc,
                  {a.taker_main_acc}, a.amount_expected_by_taker)

\* Step 1: the taker's Y tokens go to the initializer, under the taker's
\* own signature; the amount is the record's expected_amount.
TransferToInitializer(s, a, escrow_info) ==
    TokenTransfer(s, a.taker_y_acc, a.initializer_y_acc, a.taker_main_acc,
                  {a.taker_main_acc}, escrow_info.expected_amount)

\* Step 2: the amount the temp account held when the handler decoded it
\* goes to the taker, signed with the seeds of the derived address.
TransferToTaker(s, a, pda_temp_x_info) ==
    IF ~HasAccount(a.pda_acc) THEN Res(s, "MissingAccount")
    ELSE TokenTransfer(s, a.pda_temp_x_acc, a.taker_x_acc, PDA, {PDA},
                       pda_temp_x_info.amount)

\* ClosePdasTempAcc naming the taker's main account as the destination of
\* the temp account's lamports.
ClosePdasTempAcc_to_taker(s, a) ==
    IF ~HasAccount(a.pda_acc) THEN Res(s, "MissingAccount")
    ELSE TokenCloseAccount(s, a.pda_temp_x_acc, a.taker_main_acc, PDA, {PDA})

\* Step 3: close the temp account, its lamports to the initializer's main
\* account.
ClosePdasTempAcc(s, a) ==
    IF ~HasAccount(a.pda_acc) THEN Res(s, "MissingAccount")
    ELSE TokenCloseAccount(s, a.pda_temp_x_acc, a.initializer_main_acc, PDA,
                           {PDA})

\* ExchangeCloseEscrow without line 309: the record's data is left in place.
ExchangeCloseEscrow_keeps_data(s, a) ==
    IF s.lam[a.initializer_main_acc] + s.lam[a.escrow_acc] > U64MAX
    THEN Res(s, "AmountOverflow")
    ELSE Res([s EXCEPT !.lam[a.initializer_main_acc] = @ + s.lam[a.escrow_acc],
                       !.lam[a.escrow_acc] = 0], "Ok")

\* ExchangeCloseEscrow overwriting the record's data with zeroes instead of
\* emptying it: the account is left allocated and uninitialized.
ExchangeCloseEscrow_zero_fills(s, a) ==
    IF s.lam[a.initializer_main_acc] + s.lam[a.escrow_acc] > U64MAX
    THEN Res(s, "AmountOverflow")
    ELSE Res([s EXCEPT !.lam[a.initializer_main_acc] = @ + s.lam[a.escrow_acc],
                       !.lam[a.escrow_acc] = 0,
                       !.esc[a.escrow_acc] = ZeroEscrow], "Ok")

\* ExchangeCloseEscrow without line 308: the record keeps the lamports that
\* were credited to the initializer.
ExchangeCloseEscrow_keeps_lamports(s, a) ==
    IF s.lam[a.initializer_main_acc] + s.lam[a.escrow_acc] > U64MAX
    THEN Res(s, "AmountOverflow")
    ELSE Res([s EXCEPT !.lam[a.initializer_main_acc] = @ + s.lam[a.escrow_acc],
                       !.esc[a.escrow_acc] = DeletedEscrow], "Ok")

\* Step 4: the record's lamports to the initializer's main account with
\* checked_add, then the record's lamports and data are cleared.
ExchangeCloseEscrow(s, a) ==
    IF s.lam[a.initializer_main_acc] + s.lam[a.escrow_acc] > U64MAX
    THEN Res(s, "AmountOverflow")
    ELSE Res([s EXCEPT !.lam[a.initializer_main_acc] = @ + s.lam[a.escrow_acc],
                       !.lam[a.escrow_acc] = 0,
                       !.esc[a.escrow_acc] = DeletedEscrow], "Ok")

\* process_exchange with the `?` after step 1 missing: the result of the
\* first sub-call is dropped and the handler carries on.
process_exchange_unchecked_step1(s, a) ==
    LET c == ExchangeChecks(s, a) IN
    IF c # "Ok" THEN Res(s, c)
    ELSE
    LET escrow_info == s.esc[a.escrow_acc]
        pda_temp_x_info == s.tok[a.pda_temp_x_acc]
        r1 == TransferToInitializer(s, a, escrow_info)
        r2 == TransferToTaker(r1.s, a, pda_temp_x_info)
    IN
    IF ~IsOk(r2) THEN r2
    ELSE
    LET r3 == ClosePdasTempAcc(r2.s, a) IN
    IF ~IsOk(r3) THEN r3
    ELSE ExchangeCloseEscrow(r3.s, a)

process_exchange(s, a) ==
    LET c == ExchangeChecks(s, a) IN
    IF c # "Ok" THEN Res(s, c)
    ELSE
    LET escrow_info == s.esc[a.escrow_acc]
        pda_temp_x_info == s.tok[a.pda_temp_x_acc]
        r1 == TransferToInitializer(s, a, escrow_info)
    IN
    IF ~IsOk(r1) THEN r1
    ELSE
    LET r2 == TransferToTaker(r1.s, a, pda_temp_x_info) IN
    IF ~IsOk(r2) THEN r2
    ELSE
    LET r3 == ClosePdasTempAcc(r2.s, a) IN
    IF ~IsOk(r3) THEN r3
    ELSE ExchangeCloseEscrow(r3.s, a)

-----------------------------------------------------------------------------
(* Processor::process_cancel_escrow                                        *)

\* CancelChecks without the test of lines 344-346.
CancelChecks_no_signer_check(s, a) ==
    IF Unpack(s, a.escrow_acc) # "Ok" THEN Unpack(s, a.escrow_acc)
    ELSE IF s.esc[a.escrow_acc].initializer_pubkey # a.initializer_main_acc
    THEN "InvalidAccountData"
    ELSE IF s.esc[a.escrow_acc].temp_token_account_pubkey # a.temp_x_acc
    THEN "InvalidAccountData"
    ELSE IF ~IsTokenAccount(s, a.temp_x_acc) THEN "InvalidAccountData"
    ELSE "Ok"

\* The preconditions, in the order the handler tests them.
CancelChecks(s, a) ==
    IF Unpack(s, a.escrow_acc) # "Ok" THEN Unpack(s, a.escrow_acc)
    ELSE IF s.esc[a.escrow_acc].initializer_pubkey # a.initializer_main_acc
    THEN "InvalidAccountData"
    ELSE IF ~a.is_signer THEN "MissingRequiredSignature"
    ELSE IF s.esc[a.escrow_acc].temp_token_account_pubkey # a.temp_x_acc
    THEN "InvalidAccountData"
    ELSE IF ~IsTokenAccount(s, a.temp_x_acc) THEN "InvalidAccountData"
    ELSE "Ok"

\* TransferXTokensBack returning the record's expected_amount instead of the
\* amount the temp account holds.
TransferXTokensBack_expected_amount(s, a, temp_x_info) ==
    IF ~HasAccount(a.pda_acc) THEN Res(s, "MissingAccount")
    ELSE TokenTransfer(s, a.temp_x_acc, a.initializer_x_acc, PDA, {PDA},
                       s.esc[a.escrow_acc].expected_amount)

\* The temp account's whole amount goes back to the account supplied as the
\* initializer's X account, signed with the seeds of the derived address.
TransferXTokensBack(s, a, temp_x_info) ==
    IF ~HasAccount(a.pda_acc) THEN Res(s, "MissingAccount")
    ELSE TokenTransfer(s, a.temp_x_acc, a.initializer_x_acc, PDA, {PDA},
                       temp_x_info.amount)

\* CloseTempXAcc left out: the temp account is emptied but stays open.
CloseTempXAcc_skipped(s, a) == Res(s, "Ok")

\* Close the temp account; its lamports go to initializer_x_acc.
CloseTempXAcc(s, a) ==
    IF ~HasAccount(a.pda_acc) THEN Res(s, "MissingAccount")
    ELSE TokenCloseAccount(s, a.temp_x_acc, a.initializer_x_acc, PDA, {PDA})

\* CancelCloseEscrow without line 416: the record's data is left in place.
CancelCloseEscrow_keeps_data(s, a) ==
    IF s.lam[a.initializer_main_acc] + s.lam[a.escrow_acc] > U64MAX
    THEN Res(s, "AmountOverflow")
    ELSE Res([s EXCEPT !.lam[a.initializer_main_acc] = @ + s.lam[a.escrow_acc],
                       !.lam[a.escrow_acc] = 0], "Ok")

\* CancelCloseEscrow with a wrapping addition in place of checked_add.
CancelCloseEscrow_wrapping(s, a) ==
    Res([s EXCEPT !.lam[a.initializer_main_acc] =
                      (@ + s.lam[a.escrow_acc]) % (U64MAX + 1),
                  !.lam[a.escrow_acc] = 0,
                  !.esc[a.escrow_acc] = DeletedEscrow], "Ok")

\* The record's lamports to the initializer's main account with
\* checked_add, then the record's lamports and data are cleared.
CancelCloseEscrow(s, a) ==
    IF s.lam[a.initializer_main_acc] + s.lam[a.escrow_acc] > U64MAX
    THEN Res(s, "AmountOverflow")
    ELSE Res([s EXCEPT !.lam[a.initializer_main_acc] = @ + s.lam[a.escrow_acc],
                       !.lam[a.escrow_acc] = 0,
                       !.esc[a.escrow_acc] = DeletedEscrow], "Ok")

process_cancel_escrow(s, a) ==
    LET c == CancelChecks(s, a) IN
    IF c # "Ok" THEN Res(s, c)
    ELSE
    LET temp_x_info == s.tok[a.temp_x_acc]
        r1 == TransferXTokensBack(s, a, temp_x_info)
    IN
    IF ~IsOk(r1) THEN r1
    ELSE
    LET r2 == CloseTempXAcc(r1.s, a) IN
    IF ~IsOk(r2) THEN r2
    ELSE CancelCloseEscrow(r2.s, a)

-----------------------------------------------------------------------------
(* The host                                                                *)

\* An invocation's writes are kept only when the handler returns Ok.
Commit(pre, r) == IF IsOk(r) THEN r.s ELSE pre

-----------------------------------------------------------------------------
(* The instructions the model submits: each account slot ranges over the   *)
(* accounts that make its checks pass and over accounts that make them     *)
(* fail.                                                                   *)

InitAmounts == {50, 99}

ExchangeAmounts == {50, 99, 100, 101}

PdaCandidates == {PDA, "bob"}

InitArgs ==
    [initializer : Wallets, is_signer : BOOLEAN,
     temp_token_account : {"tmpX", "aliceX"},
     token_to_receive_account : {"aliceY", "alice"},
     escrow_account : EscrowAccounts, amount : InitAmounts]

ExchangeArgs ==
    [taker_main_acc : Wallets, is_signer : BOOLEAN,
     taker_y_acc : {"bobY", "aliceY"},
     taker_x_acc : {"bobX", "aliceY", "tmpX"},
     pda_temp_x_acc : {"tmpX", "aliceX"},
     initializer_main_acc : Wallets,
     initializer_y_acc : {"aliceY", "bobY"},
     escrow_acc : {"esc1", "esc2"},
     pda_acc : {PDA}, amount_expected_by_taker : ExchangeAmounts]

CancelArgs ==
    [initializer_main_acc : Wallets, is_signer : BOOLEAN,
     temp_x_acc : {"tmpX", "aliceX"},
     initializer_x_acc : {"aliceX", "tmpX", "bobX", "aliceY"},
     escrow_acc : {"esc1", "esc2"}, pda_acc : PdaCandidates]

TransferArgs ==
    [signer : Wallets, source : {"bobX", "tmpX"},
     dest : {"tmpX", "aliceX"}, amount : {1}]

-----------------------------------------------------------------------------
(* The state machine                                                       *)

InitLedger ==
    [tok |-> [t \in TokenAccounts |->
                CASE t = "tmpX"   -> [open |-> TRUE, owner |-> "alice", amount |-> 100]
                  [] t = "aliceX" -> [open |-> TRUE, owner |-> "alice", amount |-> 100]
                  [] t = "aliceY" -> [open |-> TRUE, owner |-> "alice", amount |-> 0]
                  [] t = "bobX"   -> [open |-> TRUE, owner |-> "bob", amount |-> 1]
                  [] t = "bobY"   -> [open |-> TRUE, owner |-> "bob", amount |-> 120]],
     esc |-> [e \in EscrowAccounts |-> ZeroEscrow],
     lam |-> [k \in Lamported |->
                IF k = "alice" THEN U64MAX - 4
                ELSE IF k = "bob" THEN 10
                ELSE IF k \in TokenAccounts THEN 1
                ELSE IF k = PoorEscrow THEN RentExemptMinimum - 1
                ELSE RentExemptMinimum]]

Idle == [op |-> "Idle", err |-> "Ok", escrow |-> NoKey]

Init ==
    /\ ledger = InitLedger
    /\ result = Idle
    /\ lockedAtInit = [e \in EscrowAccounts |-> 0]
    /\ nTransfers = 0

\* The host runs one invocation at a time.
InitEscrow ==
    /\ result = Idle
    /\ \E a \in InitArgs :
        LET r == process_init_escrow(ledger, a) IN
        /\ ledger' = Commit(ledger, r)
        /\ result' = [op |-> "InitEscrow", err |-> r.err,
                      escrow |-> a.escrow_account]
        /\ lockedAtInit' =
             IF IsOk(r)
             THEN [lockedAtInit EXCEPT ![a.escrow_account] =
                       ledger.tok[a.temp_token_account].amount]
             ELSE lockedAtInit
        /\ UNCHANGED nTransfers

Exchange ==
    /\ result = Idle
    /\ \E a \in ExchangeArgs :
        LET r == process_exchange(ledger, a) IN
        /\ ledger' = Commit(ledger, r)
        /\ result' = [op |-> "Exchange", err |-> r.err,
                      escrow |-> a.escrow_acc]
        /\ UNCHANGED <<lockedAtInit, nTransfers>>

Cancel ==
    /\ result = Idle
    /\ \E a \in CancelArgs :
        LET r == process_cancel_escrow(ledger, a) IN
        /\ ledger' = Commit(ledger, r)
        /\ result' = [op |-> "Cancel", err |-> r.err, escrow |-> a.escrow_acc]
        /\ UNCHANGED <<lockedAtInit, nTransfers>>

\* A wallet calls the token program directly (funding, a deposit).
UserTransfer ==
    /\ result = Idle
    /\ nTransfers < MaxTransfers
    /\ \E a \in TransferArgs :
        LET r == TokenTransfer(ledger, a.source, a.dest, a.signer,
                               {a.signer}, a.amount) IN
        /\ ledger' = Commit(ledger, r)
        /\ result' = [op |-> "Transfer", err |-> r.err, escrow |-> NoKey]
        /\ nTransfers' = nTransfers + 1
        /\ UNCHANGED lockedAtInit

\* The host hands the ProgramResult to the caller; the next invocation may
\* start.
Report ==
    /\ result # Idle
    /\ result' = Idle
    /\ UNCHANGED <<ledger, lockedAtInit, nTransfers>>

Next == InitEscrow \/ Exchange \/ Cancel \/ UserTransfer \/ Report

Spec == Init /\ [][Next]_vars


-----------------------------------------------------------------------------
(* Properties                                                              *)

Amt(s, t) == s.tok[t].amount

\* The change of the amount of token account t that a whole Exchange makes:
\* the record's expected_amount from taker_y_acc to initializer_y_acc, the
\* temp account's amount to taker_x_acc.
ExchangeDelta(pre, a, t) ==
    LET e == pre.esc[a.escrow_acc].expected_amount
        h == Amt(pre, a.pda_temp_x_acc)
    IN  (IF t = a.initializer_y_acc THEN e ELSE 0)
      - (IF t = a.taker_y_acc THEN e ELSE 0)
      + (IF t = a.taker_x_acc THEN h ELSE 0)

\* The four effects of an Exchange, and nothing else, between pre and post.
ExchangeEffects(pre, post, a) ==
    /\ \A t \in TokenAccounts \ {a.pda_temp_x_acc} :
          post.tok[t] = [pre.tok[t] EXCEPT !.amount = @ + ExchangeDelta(pre, a, t)]
    /\ post.tok[a.pda_temp_x_acc] = ClosedToken
    /\ post.lam[a.pda_temp_x_acc] = 0
    /\ post.esc[a.escrow_acc] = DeletedEscrow
    /\ post.lam[a.escrow_acc] = 0
    /\ \A e \in EscrowAccounts \ {a.escrow_acc} : post.esc[e] = pre.esc[e]

ExchangeOutcome(a) ==
    LET r == process_exchange(ledger, a)
        post == Commit(ledger, r)
    IN  IF IsOk(r) THEN ExchangeEffects(ledger, post, a) ELSE post = ledger

ExchangeStepAtomic ==
    result'.op = "Exchange" =>
        IF result'.err = "Ok"
        THEN /\ ledger'.esc[result'.escrow] = DeletedEscrow
             /\ ~ledger'.tok[ledger.esc[result'.escrow].temp_token_account_pubkey].open
        ELSE ledger' = ledger

\* C1: every Exchange invocation is all-or-nothing.  Whatever accounts and
\* amount it is given, in every reachable state, it either returns Ok and the
\* ledger it commits shows all four effects (the taker paid the initializer's
\* receiving account, the temp account's amount went to the taker, the temp
\* account is closed, the record is deleted), or it returns an error and the
\* committed ledger is the ledger before the call; and every Exchange step of
\* the machine that changes the ledger at all leaves the temp account closed
\* and the record deleted.
ExchangeAllOrNothing ==
    /\ [](result = Idle => \A a \in ExchangeArgs : ExchangeOutcome(a))
    /\ [][ExchangeStepAtomic]_vars

\* An Exchange that failed at its last step, after three sub-calls had
\* succeeded: the record and the temp account are as before.
ExchangeFailedAtStep4 ==
    /\ result.op = "Exchange"
    /\ result.err = "AmountOverflow"
    /\ ledger.esc[result.escrow].is_initialized
    /\ Amt(ledger, ledger.esc[result.escrow].temp_token_account_pubkey) > 0


PairTotal(s, x, y) == IF x = y THEN Amt(s, x) ELSE Amt(s, x) + Amt(s, y)

MintTotal(s, m) ==
    LET of(t) == IF Mint(t) = m THEN Amt(s, t) ELSE 0
    IN  of("tmpX") + of("aliceX") + of("aliceY") + of("bobX") + of("bobY")

\* The supplied accounts are the ones the record names and the declared
\* amount is the temp account's amount.
ExchangeMatches(s, a) ==
    /\ s.esc[a.escrow_acc].temp_token_account_pubkey = a.pda_temp_x_acc
    /\ s.esc[a.escrow_acc].initializer_pubkey = a.initializer_main_acc
    /\ s.esc[a.escrow_acc].initializer_token_to_receive_account_pubkey
          = a.initializer_y_acc
    /\ a.amount_expected_by_taker = Amt(s, a.pda_temp_x_acc)

\* C2: for every Exchange call that succeeds, in every reachable state, the
\* supplied accounts match the record and the declared amount is the temp
\* account's amount; the total of X over the temp account and the taker's
\* destination and the total of Y over the taker's source and the
\* initializer's receiving account are the same after the call as before
\* (so is the total of each mint over all token accounts); and afterwards
\* the temp account is closed and the record is deleted.
ExchangeConserves ==
    result = Idle =>
        \A a \in ExchangeArgs :
            LET r == process_exchange(ledger, a)
                post == Commit(ledger, r)
            IN  IsOk(r) =>
                  /\ ExchangeMatches(ledger, a)
                  /\ PairTotal(post, a.pda_temp_x_acc, a.taker_x_acc)
                       = PairTotal(ledger, a.pda_temp_x_acc, a.taker_x_acc)
                  /\ PairTotal(post, a.taker_y_acc, a.initializer_y_acc)
                       = PairTotal(ledger, a.taker_y_acc, a.initializer_y_acc)
                  /\ \A m \in {"X", "Y"} : MintTotal(post, m) = MintTotal(ledger, m)
                  /\ ~post.tok[a.pda_temp_x_acc].open
                  /\ ~post.esc[a.escrow_acc].data
                  /\ ~post.esc[a.escrow_acc].is_initialized

\* An Exchange has succeeded on the record that held tmpX: tmpX is gone, its
\* 100 X are with bob, and the Y that left bobY is in aliceY.
ExchangeDone ==
    /\ result.op = "Exchange" /\ result.err = "Ok"
    /\ ~ledger.tok["tmpX"].open
    /\ ~ledger.esc[result.escrow].data
    /\ Amt(ledger, "bobX") >= 101
    /\ Amt(ledger, "aliceY") > 0
    /\ Amt(ledger, "aliceY") + Amt(ledger, "bobY") = 120

\* The scenario: alice has initialized record e asking 50 Y, its temp
\* account holds 100 X, bob holds at least 50 Y, and alice's main account has
\* room for the two deposits an Exchange credits to it.
Scenario(e) ==
    /\ result = Idle
    /\ ledger.esc[e].is_initialized
    /\ ledger.esc[e].initializer_pubkey = "alice"
    /\ ledger.esc[e].initializer_token_to_receive_account_pubkey = "aliceY"
    /\ ledger.esc[e].expected_amount = 50
    /\ Amt(ledger, ledger.esc[e].temp_token_account_pubkey) = 100
    /\ ledger.tok["bobY"].owner = "bob" /\ Amt(ledger, "bobY") >= 50
    /\ ledger.tok["bobX"].owner = "bob"
    /\ ledger.lam["alice"] + ledger.lam[ledger.esc[e].temp_token_account_pubkey]
         + ledger.lam[e] <= U64MAX

\* bob's Exchange on record e with the declared amount n.
ScenarioExchange(e, n) ==
    [taker_main_acc |-> "bob", is_signer |-> TRUE, taker_y_acc |-> "bobY",
     taker_x_acc |-> "bobX",
     pda_temp_x_acc |-> ledger.esc[e].temp_token_account_pubkey,
     initializer_main_acc |-> "alice", initializer_y_acc |-> "aliceY",
     escrow_acc |-> e, pda_acc |-> PDA, amount_expected_by_taker |-> n]

\* The scenario's Exchange with declared amount n succeeds: alice's
\* receiving account gains 50 Y, bob's destination gains 100 X, the record is
\* deleted.
ScenarioSucceeds(e, n) ==
    LET r == process_exchange(ledger, ScenarioExchange(e, n))
        post == Commit(ledger, r)
    IN  /\ IsOk(r)
        /\ Amt(post, "aliceY") = Amt(ledger, "aliceY") + 50
        /\ Amt(post, "bobX") = Amt(ledger, "bobX") + 100
        /\ post.esc[e] = DeletedEscrow

\* The scenario's Exchange with declared amount n fails, no balance changes
\* and the record persists.
ScenarioFails(e, n) ==
    LET r == process_exchange(ledger, ScenarioExchange(e, n))
        post == Commit(ledger, r)
    IN  /\ ~IsOk(r)
        /\ post = ledger
        /\ post.esc[e].is_initialized

\* C3 (as amended): in the scenario (record asking 50 Y, temp account holding
\* 100 X, bob holding at least 50 Y), bob's Exchange with amount 100 succeeds:
\* alice's receiving account gains 50 Y, bob's destination gains 100 X, the
\* record is deleted.  bob's Exchange with amount 50, or with amount 99,
\* fails with ExpectedAmountMismatch, no balance changes, the record persists.
ScenarioExchangeDeclaresHolding ==
    \A e \in {"esc1", "esc2"} :
        Scenario(e) =>
            /\ ScenarioSucceeds(e, 100)
            /\ ScenarioFails(e, 50)
            /\ ScenarioFails(e, 99)
            /\ process_exchange(ledger, ScenarioExchange(e, 50)).err
                 = "ExpectedAmountMismatch"
            /\ process_exchange(ledger, ScenarioExchange(e, 99)).err
                 = "ExpectedAmountMismatch"

\* C3 (as claimed): in the scenario, bob's Exchange with amount 50 succeeds
\* and his Exchange with amount 99 fails.
ScenarioExchangeDeclaresPrice ==
    \A e \in {"esc1", "esc2"} :
        Scenario(e) => ScenarioSucceeds(e, 50) /\ ScenarioFails(e, 99)

\* The state after the scenario's Exchange: the record asked 50 Y for the
\* 100 X that were locked when it was initialized.
ScenarioDone ==
    /\ result.op = "Exchange" /\ result.err = "Ok"
    /\ lockedAtInit[result.escrow] = 100
    /\ Amt(ledger, "aliceY") = 50
    /\ Amt(ledger, "bobY") = 70
    /\ Amt(ledger, "bobX") = 101

\* C4 (as amended): the amount the taker declares, not the record's
\* expected_amount, is compared for exact equality against the temp
\* account's amount at Exchange time: every Exchange that succeeds does so in
\* a state where the declared amount equals that amount, and an Exchange
\* whose declared amount differs from it fails and changes nothing, with
\* ExpectedAmountMismatch when the earlier checks pass.
ExchangeComparesDeclaredAmount ==
    result = Idle =>
        \A a \in ExchangeArgs :
            LET r == process_exchange(ledger, a) IN
            /\ IsOk(r) => a.amount_expected_by_taker = Amt(ledger, a.pda_temp_x_acc)
            /\ a.amount_expected_by_taker # Amt(ledger, a.pda_temp_x_acc) =>
                  /\ ~IsOk(r)
                  /\ r.s = ledger
                  /\ Commit(ledger, r) = ledger
                  /\ (/\ a.is_signer
                      /\ Unpack(ledger, a.escrow_acc) = "Ok"
                      /\ ExchangeMatches(ledger,
                            [a EXCEPT !.amount_expected_by_taker =
                                          Amt(ledger, a.pda_temp_x_acc)]))
                       => r.err = "ExpectedAmountMismatch"

\* C4 (as claimed): every Exchange that succeeds does so in a state where
\* the record's expected_amount equals the temp account's amount, and an
\* Exchange on a record whose expected_amount differs from it fails.
ExchangeComparesRecordAmount ==
    result = Idle =>
        \A a \in ExchangeArgs :
            LET r == process_exchange(ledger, a) IN
            /\ IsOk(r) =>
                  ledger.esc[a.escrow_acc].expected_amount
                     = Amt(ledger, a.pda_temp_x_acc)
            /\ (/\ Unpack(ledger, a.escrow_acc) = "Ok"
                /\ ledger.esc[a.escrow_acc].temp_token_account_pubkey
                      = a.pda_temp_x_acc
                /\ ledger.esc[a.escrow_acc].expected_amount
                      # Amt(ledger, a.pda_temp_x_acc))
                 => ~IsOk(r)

\* An Exchange on an initialized record has been refused for its declared
\* amount.
ExchangeAmountRefused ==
    /\ result.op = "Exchange"
    /\ result.err = "ExpectedAmountMismatch"
    /\ ledger.esc[result.escrow].is_initialized
    /\ ledger.esc[result.escrow].expected_amount
          # Amt(ledger, ledger.esc[result.escrow].temp_token_account_pubkey)

\* One of the three accounts the record names is not the one supplied.
ExchangeSubstitutes(s, a) ==
    \/ s.esc[a.escrow_acc].temp_token_account_pubkey # a.pda_temp_x_acc
    \/ s.esc[a.escrow_acc].initializer_pubkey # a.initializer_main_acc
    \/ s.esc[a.escrow_acc].initializer_token_to_receive_account_pubkey
          # a.initializer_y_acc

\* C5: an Exchange on an initialized record fails, and writes nothing (the
\* handler's own ledger and the committed one are the ledger before the
\* call), when the supplied temp account, initializer main account or
\* initializer receiving account is not the one in the record, and when the
\* temp account's amount differs from the declared amount, by one unit or by
\* more.  The error is InvalidAccountData for a substituted account and
\* ExpectedAmountMismatch for the amount, each when it is the first check to
\* fail (the taker signed, and for the amount no account is substituted).
ExchangeRejectsMismatch ==
    result = Idle =>
        \A a \in ExchangeArgs :
            LET r == process_exchange(ledger, a)
                live == Amt(ledger, a.pda_temp_x_acc)
            IN
            Unpack(ledger, a.escrow_acc) = "Ok" =>
              /\ ExchangeSubstitutes(ledger, a) =>
                    /\ ~IsOk(r) /\ r.s = ledger /\ Commit(ledger, r) = ledger
                    /\ a.is_signer => r.err = "InvalidAccountData"
              /\ live # a.amount_expected_by_taker =>
                    /\ ~IsOk(r) /\ r.s = ledger /\ Commit(ledger, r) = ledger
                    /\ (a.is_signer /\ ~ExchangeSubstitutes(ledger, a))
                          => r.err = "ExpectedAmountMismatch"
              /\ (live = a.amount_expected_by_taker + 1
                    \/ live + 1 = a.amount_expected_by_taker) => ~IsOk(r)

\* An Exchange on an initialized record has been refused with
\* InvalidAccountData, and a call that substitutes an account of that record
\* gets that error here.
ExchangeSubstitutionRefused ==
    /\ result.op = "Exchange"
    /\ result.err = "InvalidAccountData"
    /\ ledger.esc[result.escrow].is_initialized
    /\ \E a \in ExchangeArgs :
          /\ a.escrow_acc = result.escrow
          /\ a.is_signer
          /\ a.pda_temp_x_acc = ledger.esc[a.escrow_acc].temp_token_account_pubkey
          /\ a.initializer_main_acc = ledger.esc[a.escrow_acc].initializer_pubkey
          /\ a.initializer_y_acc
                # ledger.esc[a.escrow_acc].initializer_token_to_receive_account_pubkey
          /\ a.amount_expected_by_taker = Amt(ledger, a.pda_temp_x_acc)
          /\ process_exchange(ledger, a).err = "InvalidAccountData"


\* The temp account of an initialized record is open and under the derived
\* authority.
HeldByPda(s, e) ==
    LET t == s.esc[e].temp_token_account_pubkey IN
    t \in TokenAccounts /\ s.tok[t].open /\ s.tok[t].owner = PDA

\* A step that lowers the amount of the temp account of an initialized
\* record, closes it or changes its authority is a successful Exchange or
\* Cancel on that record.
LockInStep ==
    \A e \in EscrowAccounts :
        ledger.esc[e].is_initialized =>
            LET t == ledger.esc[e].temp_token_account_pubkey IN
            (Amt(ledger', t) < Amt(ledger, t) \/ ledger'.tok[t] # [ledger.tok[t] EXCEPT !.amount = Amt(ledger', t)])
               => /\ result'.op \in {"Exchange", "Cancel"}
                  /\ result'.err = "Ok"
                  /\ result'.escrow = e

\* C6: lock-in.  In every reachable state the temp account of every
\* initialized record is open and its authority is the derived address; over
\* any sequence of InitEscrow, Exchange and Cancel invocations and of direct
\* transfers by the wallets, with any accounts and signers, the only steps
\* that lower that account's amount, close it or change its authority are a
\* successful Exchange or Cancel on that record; and a Cancel succeeds only
\* when the record's initializer signed it.
LockIn ==
    /\ [](\A e \in EscrowAccounts : ledger.esc[e].is_initialized => HeldByPda(ledger, e))
    /\ [][LockInStep]_vars
    /\ [](result = Idle =>
            \A a \in CancelArgs :
                IsOk(process_cancel_escrow(ledger, a)) =>
                    /\ a.is_signer
                    /\ a.initializer_main_acc = ledger.esc[a.escrow_acc].initializer_pubkey)

\* The token program has refused a direct transfer while a record is
\* initialized, and it refuses the initializer's own transfer out of the
\* record's temp account.
LockedAssetTransferRefused ==
    /\ result.op = "Transfer"
    /\ result.err = "TokenError::OwnerMismatch"
    /\ \E e \in EscrowAccounts, ta \in TransferArgs :
          /\ ledger.esc[e].is_initialized
          /\ ta.signer = ledger.esc[e].initializer_pubkey
          /\ ta.source = ledger.esc[e].temp_token_account_pubkey
          /\ Amt(ledger, ta.source) >= ta.amount
          /\ TokenTransfer(ledger, ta.source, ta.dest, ta.signer, {ta.signer},
                           ta.amount).err = "TokenError::OwnerMismatch"

\* C7: for every InitEscrow call that succeeds, in every reachable state,
\* the record it leaves has is_initialized = TRUE and the initializer, temp
\* account, receiving account and amount of the call as its four fields, and
\* the temp account's authority, which was the initializer, is the derived
\* address.
InitEscrowWritesRecord ==
    result = Idle =>
        \A a \in InitArgs :
            LET r == process_init_escrow(ledger, a)
                post == Commit(ledger, r)
            IN  IsOk(r) =>
                  /\ post.esc[a.escrow_account].data
                  /\ post.esc[a.escrow_account].is_initialized
                  /\ post.esc[a.escrow_account].initializer_pubkey = a.initializer
                  /\ post.esc[a.escrow_account].temp_token_account_pubkey
                        = a.temp_token_account
                  /\ post.esc[a.escrow_account].initializer_token_to_receive_account_pubkey
                        = a.token_to_receive_account
                  /\ post.esc[a.escrow_account].expected_amount = a.amount
                  /\ a.is_signer
                  /\ ledger.tok[a.temp_token_account].owner = a.initializer
                  /\ post.tok[a.temp_token_account].owner = PDA
                  /\ a.initializer # PDA

\* An InitEscrow has succeeded: the record is initialized and its temp
\* account, which holds what it held at the call, is under the derived
\* address.
InitEscrowDone ==
    /\ result.op = "InitEscrow" /\ result.err = "Ok"
    /\ ledger.esc[result.escrow].is_initialized
    /\ ledger.esc[result.escrow].initializer_pubkey = "alice"
    /\ ledger.tok[ledger.esc[result.escrow].temp_token_account_pubkey].owner = PDA
    /\ Amt(ledger, ledger.esc[result.escrow].temp_token_account_pubkey)
          = lockedAtInit[result.escrow]

\* The fields of the record and the authority and amount of every token
\* account of s are those of the ledger.
RecordsAndTokensUnchanged(s) == s.esc = ledger.esc /\ s.tok = ledger.tok

\* C8 (as amended): InitEscrow is not idempotent.  An InitEscrow call on a
\* record that is already initialized fails, whatever its other arguments,
\* and leaves the record's fields and every account's authority and balance
\* unchanged; the error is AccountAlreadyInitialized whenever the call is
\* signed and its receiving account is owned by the token program, and the
\* error of the earlier failed check (MissingRequiredSignature,
\* IncorrectProgramId) otherwise.
InitEscrowOnceOnly ==
    result = Idle =>
        \A a \in InitArgs :
            LET r == process_init_escrow(ledger, a) IN
            ledger.esc[a.escrow_account].is_initialized =>
              /\ ~IsOk(r)
              /\ r.s = ledger
              /\ RecordsAndTokensUnchanged(Commit(ledger, r))
              /\ r.err \in {"AccountAlreadyInitialized", "MissingRequiredSignature",
                            "IncorrectProgramId"}
              /\ (a.is_signer
                    /\ OwnerProgram(ledger, a.token_to_receive_account) = TokenProgram)
                   => r.err = "AccountAlreadyInitialized"
              /\ ~a.is_signer => r.err = "MissingRequiredSignature"

\* C8 (as claimed): an InitEscrow call on a record that is already
\* initialized fails with AccountAlreadyInitialized, whatever its other
\* arguments, and changes nothing.
InitEscrowAlwaysAlreadyInitialized ==
    result = Idle =>
        \A a \in InitArgs :
            LET r == process_init_escrow(ledger, a) IN
            ledger.esc[a.escrow_account].is_initialized =>
              /\ r.err = "AccountAlreadyInitialized"
              /\ RecordsAndTokensUnchanged(Commit(ledger, r))

\* A second InitEscrow on an initialized record has been refused.
SecondInitRefused ==
    /\ result.op = "InitEscrow"
    /\ result.err = "AccountAlreadyInitialized"
    /\ ledger.esc[result.escrow].is_initialized
    /\ HeldByPda(ledger, result.escrow)

\* C9: Cancel succeeds only when its first account is a signer and is the
\* record's initializer.  On an initialized record, a Cancel whose first
\* account is another party, signed or not, fails with InvalidAccountData; a
\* Cancel naming the initializer without its signature fails with
\* MissingRequiredSignature; in both cases nothing is written.
CancelOnlyByInitializer ==
    result = Idle =>
        \A a \in CancelArgs :
            LET r == process_cancel_escrow(ledger, a)
                rec == ledger.esc[a.escrow_acc]
            IN
            /\ IsOk(r) => /\ a.is_signer
                          /\ rec.is_initialized
                          /\ a.initializer_main_acc = rec.initializer_pubkey
            /\ (rec.is_initialized /\ a.initializer_main_acc # rec.initializer_pubkey)
                  => /\ r.err = "InvalidAccountData"
                     /\ r.s = ledger /\ Commit(ledger, r) = ledger
            /\ (rec.is_initialized /\ a.initializer_main_acc = rec.initializer_pubkey
                  /\ ~a.is_signer)
                  => /\ r.err = "MissingRequiredSignature"
                     /\ r.s = ledger /\ Commit(ledger, r) = ledger

\* A Cancel of an initialized record has been refused for the missing
\* signature of its initializer, and another party's signed Cancel of that
\* record is refused with InvalidAccountData.
CancelUnsignedRefused ==
    /\ result.op = "Cancel"
    /\ result.err = "MissingRequiredSignature"
    /\ ledger.esc[result.escrow].is_initialized
    /\ \E a \in CancelArgs :
          /\ a.escrow_acc = result.escrow
          /\ a.is_signer
          /\ a.initializer_main_acc # ledger.esc[a.escrow_acc].initializer_pubkey
          /\ a.temp_x_acc = ledger.esc[a.escrow_acc].temp_token_account_pubkey
          /\ process_cancel_escrow(ledger, a).err = "InvalidAccountData"

\* The amount of mint m in the open token accounts whose authority is k.
OwnedTotal(s, k, m) ==
    LET of(t) == IF s.tok[t].open /\ s.tok[t].owner = k /\ Mint(t) = m
                 THEN Amt(s, t) ELSE 0
    IN  of("tmpX") + of("aliceX") + of("aliceY") + of("bobX") + of("bobY")

\* C10: for every Cancel call that succeeds, in every reachable state, the
\* whole amount the temp account holds at the call, which is at least the
\* amount it held when the record was initialized, is added to the account
\* supplied as the initializer's X account; when that account is the
\* initializer's own, the initializer's total of that mint grows by that
\* amount.  Afterwards the temp account is closed and the record is deleted,
\* neither keeping lamports.
CancelReturnsLiveBalance ==
    result = Idle =>
        \A a \in CancelArgs :
            LET r == process_cancel_escrow(ledger, a)
                post == Commit(ledger, r)
                live == Amt(ledger, a.temp_x_acc)
                who == ledger.esc[a.escrow_acc].initializer_pubkey
            IN  IsOk(r) =>
                  /\ a.initializer_x_acc # a.temp_x_acc
                  /\ Amt(post, a.initializer_x_acc)
                        = Amt(ledger, a.initializer_x_acc) + live
                  /\ live >= lockedAtInit[a.escrow_acc]
                  /\ ledger.tok[a.initializer_x_acc].owner = who =>
                        OwnedTotal(post, who, Mint(a.temp_x_acc))
                           = OwnedTotal(ledger, who, Mint(a.temp_x_acc)) + live
                  /\ post.tok[a.temp_x_acc] = ClosedToken
                  /\ post.lam[a.temp_x_acc] = 0
                  /\ post.esc[a.escrow_acc] = DeletedEscrow
                  /\ post.lam[a.escrow_acc] = 0

\* A Cancel has succeeded on a record whose temp account had received a
\* deposit after InitEscrow: aliceX holds its own 100 and the 101 returned.
CancelDone ==
    /\ result.op = "Cancel" /\ result.err = "Ok"
    /\ lockedAtInit[result.escrow] = 100
    /\ ~ledger.tok["tmpX"].open
    /\ ledger.esc[result.escrow] = DeletedEscrow
    /\ ledger.tok["aliceX"].owner = "alice"
    /\ Amt(ledger, "aliceX") = 201


\* A successful Exchange or Cancel finds its record initialized and leaves
\* it deleted, and a deleted record stays deleted.
ConsumeStep ==
    /\ (result'.op \in {"Exchange", "Cancel"} /\ result'.err = "Ok")
          => /\ ledger.esc[result'.escrow].is_initialized
             /\ ledger'.esc[result'.escrow] = DeletedEscrow
             /\ ~IsTokenAccount(ledger',
                                ledger.esc[result'.escrow].temp_token_account_pubkey)
    /\ \A e \in EscrowAccounts :
          ledger.esc[e] = DeletedEscrow => ledger'.esc[e] = DeletedEscrow

\* Every Exchange and every Cancel on a deleted record fails and writes
\* nothing; when signed, its error is InvalidAccountData, from decoding the
\* record or the temp account.
ConsumedRefuses ==
    result = Idle =>
        /\ \A a \in ExchangeArgs :
              LET r == process_exchange(ledger, a) IN
              ledger.esc[a.escrow_acc] = DeletedEscrow =>
                /\ ~IsOk(r) /\ r.s = ledger /\ Commit(ledger, r) = ledger
                /\ a.is_signer => r.err = "InvalidAccountData"
        /\ \A a \in CancelArgs :
              LET r == process_cancel_escrow(ledger, a) IN
              ledger.esc[a.escrow_acc] = DeletedEscrow =>
                /\ ~IsOk(r) /\ r.s = ledger /\ Commit(ledger, r) = ledger
                /\ r.err = "InvalidAccountData"

\* C11: a record is consumed at most once.  In every interleaving of the
\* invocations, a successful Exchange or Cancel finds its record initialized
\* and leaves it deleted with its temp account closed, a deleted record is
\* never written again, and every Exchange or Cancel on a deleted record
\* fails and changes nothing, because the record no longer decodes or the
\* temp account no longer exists; so at most one Exchange or Cancel succeeds
\* on a record.
ConsumedAtMostOnce == [][ConsumeStep]_vars /\ []ConsumedRefuses

\* A signed Exchange or Cancel on a record already consumed has been
\* refused.
SecondConsumeRefused ==
    /\ result.op \in {"Exchange", "Cancel"}
    /\ result.err = "InvalidAccountData"
    /\ ledger.esc[result.escrow] = DeletedEscrow
    /\ ~ledger.tok["tmpX"].open


\* The steps of a record's life: written once by a successful InitEscrow on
\* it, from the zeroed record; then unchanged by every invocation until a
\* successful Exchange or Cancel on it deletes it; never written afterwards.
LifecycleStep ==
    \A e \in EscrowAccounts :
        /\ ledger'.esc[e] # ledger.esc[e] => result'.err = "Ok" /\ result'.escrow = e
        /\ (~ledger.esc[e].is_initialized /\ ledger'.esc[e] # ledger.esc[e])
              => /\ result'.op = "InitEscrow"
                 /\ ledger.esc[e] = ZeroEscrow
                 /\ ledger'.esc[e].is_initialized
                 /\ ledger'.esc[e].data
        /\ (ledger.esc[e].is_initialized /\ ledger'.esc[e] # ledger.esc[e])
              => /\ result'.op \in {"Exchange", "Cancel"}
                 /\ ledger'.esc[e] = DeletedEscrow

\* C12: record lifecycle.  For each record, is_initialized goes from false
\* to true only by a successful InitEscrow on it, which happens at most once
\* (a deleted record is never written again); while the record exists
\* is_initialized does not return to false, and its initializer, temp
\* account, receiving account and expected_amount are changed by no
\* invocation, failed or successful, until a successful Exchange or Cancel
\* on it deletes it.
RecordLifecycle ==
    /\ [][LifecycleStep]_vars
    /\ [](\A e \in EscrowAccounts :
            \/ ledger.esc[e] \in {ZeroEscrow, DeletedEscrow}
            \/ /\ ledger.esc[e].is_initialized /\ ledger.esc[e].data
               /\ ledger.esc[e].initializer_pubkey \in Wallets
               /\ ledger.esc[e].temp_token_account_pubkey \in TokenAccounts
               /\ ledger.esc[e].expected_amount \in InitAmounts)

\* An initialized record has come through a refused Cancel with the fields
\* InitEscrow gave it, while the other record has already been deleted.
RecordSurvivesRefusedCall ==
    /\ result.op = "Cancel"
    /\ result.err # "Ok"
    /\ ledger.esc[result.escrow].is_initialized
    /\ ledger.esc[result.escrow].initializer_pubkey = "alice"
    /\ ledger.esc[result.escrow].expected_amount = 99
    /\ \E e \in EscrowAccounts : ledger.esc[e] = DeletedEscrow


\* C13: for every Exchange call that succeeds, in every reachable state, the
\* lamports of the closed temp account and the lamports of the deleted
\* record are both credited to the initializer's main account: its lamports
\* grow by exactly the sum of the two, and the record and the temp account
\* hold no lamports afterwards; no other account's lamports change.
ExchangeCreditsDeposits ==
    result = Idle =>
        \A a \in ExchangeArgs :
            LET r == process_exchange(ledger, a)
                post == Commit(ledger, r)
                main == a.initializer_main_acc
            IN  IsOk(r) =>
                  /\ main = ledger.esc[a.escrow_acc].initializer_pubkey
                  /\ post.lam[main] = ledger.lam[main]
                                        + ledger.lam[a.pda_temp_x_acc]
                                        + ledger.lam[a.escrow_acc]
                  /\ ledger.lam[a.pda_temp_x_acc] > 0
                  /\ ledger.lam[a.escrow_acc] >= RentExemptMinimum
                  /\ post.lam[a.escrow_acc] = 0
                  /\ post.lam[a.pda_temp_x_acc] = 0
                  /\ \A k \in Lamported \ {main, a.pda_temp_x_acc, a.escrow_acc} :
                        post.lam[k] = ledger.lam[k]

\* An Exchange signed by bob has succeeded: alice's main account holds the
\* lamports it started with, the temp account's 1 and the record's 2.
ExchangeDepositsCredited ==
    /\ result.op = "Exchange" /\ result.err = "Ok"
    /\ ledger.lam["alice"] = InitLedger.lam["alice"] + 1 + RentExemptMinimum
    /\ ledger.lam["bob"] = InitLedger.lam["bob"]
    /\ ledger.lam[result.escrow] = 0
    /\ \E t \in {"tmpX", "aliceX"} : ~ledger.tok[t].open /\ ledger.lam[t] = 0


\* C14 (as claimed): for every Cancel call that succeeds, in every reachable
\* state, the lamports of the closed temp account and the lamports of the
\* deleted record are both credited to the account that signs the Cancel as
\* the initializer: its lamports grow by exactly the sum of the two.
CancelCreditsDepositsToInitializer ==
    result = Idle =>
        \A a \in CancelArgs :
            LET r == process_cancel_escrow(ledger, a)
                post == Commit(ledger, r)
                main == a.initializer_main_acc
            IN  IsOk(r) =>
                  post.lam[main] = ledger.lam[main]
                                     + ledger.lam[a.temp_x_acc]
                                     + ledger.lam[a.escrow_acc]

\* A Cancel signed by alice has succeeded with aliceX as her X account: her
\* main account has gained the record's lamports only, and the temp
\* account's lamports are in the token account aliceX.
CancelTempDepositInXAcc ==
    /\ result.op = "Cancel" /\ result.err = "Ok"
    /\ ledger.lam["alice"] = InitLedger.lam["alice"] + RentExemptMinimum
    /\ ledger.lam["aliceX"] = InitLedger.lam["aliceX"] + InitLedger.lam["tmpX"]
    /\ ~ledger.tok["tmpX"].open /\ ledger.lam["tmpX"] = 0
    /\ ledger.lam[result.escrow] = 0


\* The ledger an Exchange has built when it comes to credit the record's
\* lamports (the checks and the three sub-calls passed), or the failure
\* that stops it earlier.
ExchangeBeforeCredit(s, a) ==
    LET c == ExchangeChecks(s, a) IN
    IF c # "Ok" THEN Res(s, c)
    ELSE LET r1 == TransferToInitializer(s, a, s.esc[a.escrow_acc]) IN
         IF ~IsOk(r1) THEN r1
         ELSE LET r2 == TransferToTaker(r1.s, a, s.tok[a.pda_temp_x_acc]) IN
              IF ~IsOk(r2) THEN r2 ELSE ClosePdasTempAcc(r2.s, a)

\* The same for a Cancel.
CancelBeforeCredit(s, a) ==
    LET c == CancelChecks(s, a) IN
    IF c # "Ok" THEN Res(s, c)
    ELSE LET r1 == TransferXTokensBack(s, a, s.tok[a.temp_x_acc]) IN
         IF ~IsOk(r1) THEN r1 ELSE CloseTempXAcc(r1.s, a)

\* What the credit of the record's lamports does, given the handler's
\* result r and the ledger b.s it had built when it came to the credit.
CheckedCredit(b, r, main, e) ==
    /\ IsOk(b) =>
          IF b.s.lam[main] + b.s.lam[e] > U64MAX
          THEN r.err = "AmountOverflow" /\ Commit(ledger, r) = ledger
          ELSE /\ IsOk(r)
               /\ Commit(ledger, r).lam[main] = b.s.lam[main] + b.s.lam[e]
               /\ Commit(ledger, r).lam[e] = 0
    /\ r.err = "AmountOverflow" =>
          IsOk(b) /\ b.s.lam[main] + b.s.lam[e] > U64MAX
    /\ ledger.lam[main] + ledger.lam[e] > U64MAX =>
          ~IsOk(r) /\ Commit(ledger, r) = ledger

\* C15: the credit of the record's lamports in Exchange and in Cancel is an
\* overflow-checked addition over unsigned balances no larger than U64MAX.
\* In every reachable state, a call that comes to the credit with the main
\* account's lamports plus the record's above U64MAX fails with
\* AmountOverflow and leaves the record, the temp account and every balance
\* as before the call; otherwise the main account gets the exact sum; a call
\* made when the sum already exceeds U64MAX never succeeds; and no balance
\* of the ledger ever leaves 0..U64MAX.
AmountOverflowChecked ==
    /\ \A k \in Lamported : ledger.lam[k] \in 0..U64MAX
    /\ \A k \in TokenAccounts : Amt(ledger, k) \in 0..U64MAX
    /\ result = Idle =>
        /\ \A a \in ExchangeArgs :
              CheckedCredit(ExchangeBeforeCredit(ledger, a),
                            process_exchange(ledger, a),
                            a.initializer_main_acc, a.escrow_acc)
        /\ \A a \in CancelArgs :
              CheckedCredit(CancelBeforeCredit(ledger, a),
                            process_cancel_escrow(ledger, a),
                            a.initializer_main_acc, a.escrow_acc)

\* A Cancel signed by alice has failed at the credit of the record's
\* lamports: the record is still initialized, its temp account still holds
\* the tokens, and alice's lamports have not wrapped.
CancelFailedAtCredit ==
    /\ result.op = "Cancel"
    /\ result.err = "AmountOverflow"
    /\ ledger.esc[result.escrow].is_initialized
    /\ HeldByPda(ledger, result.escrow)
    /\ Amt(ledger, ledger.esc[result.escrow].temp_token_account_pubkey) > 0
    /\ ledger.lam["alice"] + ledger.lam[result.escrow] > U64MAX


\* A Cancel of record e as its initializer makes it: signed, with the
\* recorded temp account and the derived address, returning the tokens to
\* another open account of the same mint that has room for them, and no
\* lamport balance overflowing.
WellFormedCancel(s, a) ==
    LET rec == s.esc[a.escrow_acc] IN
    /\ rec.is_initialized
    /\ a.is_signer /\ a.initializer_main_acc = rec.initializer_pubkey
    /\ a.temp_x_acc = rec.temp_token_account_pubkey
    /\ a.pda_acc = PDA
    /\ a.initializer_x_acc # a.temp_x_acc
    /\ IsTokenAccount(s, a.initializer_x_acc)
    /\ Mint(a.initializer_x_acc) = Mint(a.temp_x_acc)
    /\ Amt(s, a.initializer_x_acc) + Amt(s, a.temp_x_acc) <= U64MAX
    /\ s.lam[a.initializer_x_acc] + s.lam[a.temp_x_acc] <= U64MAX
    /\ s.lam[a.initializer_main_acc] + s.lam[a.escrow_acc] <= U64MAX

\* An Exchange of record e as a taker makes it: signed, with the recorded
\* accounts and the derived address, declaring the amount the temp account
\* holds now, paying from an account of the taker that holds at least
\* expected_amount, receiving in another open account of the temp account's
\* mint, and no balance overflowing.
WellFormedExchange(s, a) ==
    LET rec == s.esc[a.escrow_acc] IN
    /\ rec.is_initialized
    /\ a.is_signer
    /\ a.pda_temp_x_acc = rec.temp_token_account_pubkey
    /\ a.initializer_main_acc = rec.initializer_pubkey
    /\ a.initializer_y_acc = rec.initializer_token_to_receive_account_pubkey
    /\ a.pda_acc = PDA
    /\ a.amount_expected_by_taker = Amt(s, a.pda_temp_x_acc)
    /\ IsTokenAccount(s, a.taker_y_acc)
    /\ s.tok[a.taker_y_acc].owner = a.taker_main_acc
    /\ Amt(s, a.taker_y_acc) >= rec.expected_amount
    /\ Mint(a.taker_y_acc) = Mint(a.initializer_y_acc)
    /\ a.taker_y_acc # a.initializer_y_acc
          => Amt(s, a.initializer_y_acc) + rec.expected_amount <= U64MAX
    /\ a.taker_x_acc # a.pda_temp_x_acc
    /\ IsTokenAccount(s, a.taker_x_acc)
    /\ Mint(a.taker_x_acc) = Mint(a.pda_temp_x_acc)
    /\ Amt(s, a.taker_x_acc) + Amt(s, a.pda_temp_x_acc) <= U64MAX
    /\ s.lam[a.initializer_main_acc] + s.lam[a.pda_temp_x_acc]
          + s.lam[a.escrow_acc] <= U64MAX

ExchangeMovesExpectedAndLive ==
    result = Idle =>
        \A a \in ExchangeArgs :
            LET r == process_exchange(ledger, a)
                post == Commit(ledger, r)
                expected == ledger.esc[a.escrow_acc].expected_amount
                live == Amt(ledger, a.pda_temp_x_acc)
            IN  IsOk(r) =>
                  /\ a.taker_y_acc # a.initializer_y_acc =>
                        /\ Amt(post, a.taker_y_acc)
                              = Amt(ledger, a.taker_y_acc) - expected
                        /\ Amt(post, a.initializer_y_acc)
                              = Amt(ledger, a.initializer_y_acc) + expected
                  /\ a.taker_y_acc = a.initializer_y_acc =>
                        Amt(post, a.taker_y_acc) = Amt(ledger, a.taker_y_acc)
                  /\ a.taker_x_acc \notin {a.taker_y_acc, a.initializer_y_acc,
                                           a.pda_temp_x_acc}
                  /\ Amt(post, a.taker_x_acc) = Amt(ledger, a.taker_x_acc) + live
                  /\ live = a.amount_expected_by_taker
                  /\ Amt(post, a.pda_temp_x_acc) = 0

\* An Exchange has succeeded whose payload (101, the temp account's amount
\* after a deposit) differs from the record's expected_amount (50): bob paid
\* 50 Y and received 101 X.
ExchangePaidExpectedGotLive ==
    /\ result.op = "Exchange" /\ result.err = "Ok"
    /\ Amt(ledger, "aliceY") = 50
    /\ Amt(ledger, "bobY") = InitLedger.tok["bobY"].amount - 50
    /\ Amt(ledger, "bobX") = 101
    /\ ~ledger.tok["tmpX"].open


\* C18: when the token program rejects the set_authority sub-call of an
\* InitEscrow whose own checks passed, in any reachable state, InitEscrow
\* returns the token program's error; the handler had written the record
\* before the sub-call, but the record the call leaves is the uninitialized
\* one it found, and nothing else has changed.  Hence every initialized
\* record's temp account is under the derived address.
InitEscrowDelegationRejected ==
    /\ \A e \in EscrowAccounts : ledger.esc[e].is_initialized => HeldByPda(ledger, e)
    /\ result = Idle =>
        \A a \in InitArgs :
            LET r == process_init_escrow(ledger, a)
                written == InitPack(ledger, a)
                sub == TokenSetAuthority(written, a.temp_token_account, PDA,
                                         a.initializer, {a.initializer})
            IN  /\ (InitChecks(ledger, a) = "Ok" /\ ~IsOk(sub)) =>
                      /\ r.err = sub.err
                      /\ r.err \in {"TokenError::OwnerMismatch", "InvalidAccountData"}
                      /\ r.s.esc[a.escrow_account].is_initialized
                      /\ ~ledger.esc[a.escrow_account].is_initialized
                      /\ Commit(ledger, r) = ledger
                /\ (InitChecks(ledger, a) = "Ok"
                      /\ IsTokenAccount(ledger, a.temp_token_account)
                      /\ ledger.tok[a.temp_token_account].owner # a.initializer)
                      => r.err = "TokenError::OwnerMismatch"
                /\ IsOk(r) => IsOk(sub) /\ HeldByPda(r.s, a.escrow_account)

\* An InitEscrow has been refused by the token program and its record is
\* still the zeroed one, while another record is initialized whose temp
\* account, held by the derived address, makes the initializer's InitEscrow
\* on the first record fail in the sub-call.
InitEscrowSubCallRefused ==
    /\ result.op = "InitEscrow"
    /\ result.err = "TokenError::OwnerMismatch"
    /\ ledger.esc[result.escrow] = ZeroEscrow
    /\ \E f \in EscrowAccounts \ {result.escrow}, a \in InitArgs :
          /\ ledger.esc[f].is_initialized
          /\ a.escrow_account = result.escrow
          /\ a.is_signer
          /\ a.initializer = ledger.esc[f].initializer_pubkey
          /\ a.temp_token_account = ledger.esc[f].temp_token_account_pubkey
          /\ InitChecks(ledger, a) = "Ok"
          /\ process_init_escrow(ledger, a).err = "TokenError::OwnerMismatch"


\* The four preconditions of InitEscrow, as violated by call a in ledger s.
NotSigner(s, a) == ~a.is_signer

ReceiveNotTokenOwned(s, a) ==
    ~(a.token_to_receive_account \in TokenAccounts
        /\ s.tok[a.token_to_receive_account].open)

BelowRentExemption(s, a) == s.lam[a.escrow_account] < RentExemptMinimum

AlreadyInitialized(s, a) == s.esc[a.escrow_account].is_initialized

\* C19: InitEscrow fails with the error of the first violated precondition
\* in the order: initializer not a signer (MissingRequiredSignature),
\* receiving account not owned by the token program (IncorrectProgramId),
\* record account below the rent exemption (NotRentExempt), record already
\* initialized (AccountAlreadyInitialized).  In every reachable state, for
\* every call, when several are violated the earliest decides the error, and
\* every such failure leaves the record and the temp account's authority,
\* with all the rest of the ledger, unchanged.
InitEscrowFailsFast ==
    result = Idle =>
        \A a \in InitArgs :
            LET r == process_init_escrow(ledger, a) IN
            /\ NotSigner(ledger, a) => r.err = "MissingRequiredSignature"
            /\ (~NotSigner(ledger, a) /\ ReceiveNotTokenOwned(ledger, a))
                  => r.err = "IncorrectProgramId"
            /\ (~NotSigner(ledger, a) /\ ~ReceiveNotTokenOwned(ledger, a)
                  /\ BelowRentExemption(ledger, a))
                  => r.err = "NotRentExempt"
            /\ (~NotSigner(ledger, a) /\ ~ReceiveNotTokenOwned(ledger, a)
                  /\ ~BelowRentExemption(ledger, a) /\ AlreadyInitialized(ledger, a))
                  => r.err = "AccountAlreadyInitialized"
            /\ (NotSigner(ledger, a) \/ ReceiveNotTokenOwned(ledger, a)
                  \/ BelowRentExemption(ledger, a) \/ AlreadyInitialized(ledger, a))
                  => /\ ~IsOk(r)
                     /\ r.s = ledger
                     /\ Commit(ledger, r) = ledger
            /\ r.err \in {"MissingRequiredSignature", "IncorrectProgramId",
                          "NotRentExempt", "AccountAlreadyInitialized"}
                  => r.s = ledger

\* An InitEscrow on the record account below the rent exemption has been
\* refused for rent, and an unsigned call naming a wallet as the receiving
\* account on that record, three violations at once, is refused for the
\* signature.
InitEscrowRefusedForRent ==
    /\ result.op = "InitEscrow"
    /\ result.err = "NotRentExempt"
    /\ result.escrow = PoorEscrow
    /\ ledger.esc[PoorEscrow] = ZeroEscrow
    /\ \E a \in InitArgs :
          /\ a.escrow_account = PoorEscrow
          /\ NotSigner(ledger, a) /\ ReceiveNotTokenOwned(ledger, a)
          /\ BelowRentExemption(ledger, a)
          /\ process_init_escrow(ledger, a).err = "MissingRequiredSignature"


\* Exchange calls in which another record's temp account may stand in any
\* token account slot, the debited ones included.
CrossExchangeArgs ==
    [taker_main_acc : Wallets, is_signer : BOOLEAN,
     taker_y_acc : {"bobY", "aliceY", "tmpX", "aliceX"},
     taker_x_acc : {"bobX", "aliceY", "tmpX", "aliceX"},
     pda_temp_x_acc : {"tmpX", "aliceX"},
     initializer_main_acc : Wallets,
     initializer_y_acc : {"aliceY", "bobY", "tmpX"},
     escrow_acc : {"esc1", "esc2"},
     pda_acc : {PDA}, amount_expected_by_taker : ExchangeAmounts]

\* Between pre and post, record b is as it was and its temp account is
\* still open under the same authority with no smaller an amount.
Untouched(pre, post, b) ==
    LET t == pre.esc[b].temp_token_account_pubkey IN
    /\ post.esc[b] = pre.esc[b]
    /\ post.lam[b] = pre.lam[b]
    /\ post.tok[t].open
    /\ post.tok[t].owner = pre.tok[t].owner
    /\ Amt(post, t) >= Amt(pre, t)

\* C20: isolation of the records that share the derived address.  In every
\* reachable state, for every initialized record b, no InitEscrow, Exchange
\* or Cancel call on another record, with any accounts and any signer,
\* changes or deletes record b, lowers the amount of b's temp account,
\* closes it or changes its authority; and two initialized records never
\* name the same temp account.
RecordsIsolated ==
    /\ \A e, f \in EscrowAccounts :
          (e # f /\ ledger.esc[e].is_initialized /\ ledger.esc[f].is_initialized)
             => ledger.esc[e].temp_token_account_pubkey
                   # ledger.esc[f].temp_token_account_pubkey
    /\ result = Idle =>
        \A b \in EscrowAccounts :
            ledger.esc[b].is_initialized =>
              /\ \A a \in InitArgs :
                    a.escrow_account # b =>
                       Untouched(ledger, Commit(ledger, process_init_escrow(ledger, a)), b)
              /\ \A a \in CrossExchangeArgs :
                    a.escrow_acc # b =>
                       Untouched(ledger, Commit(ledger, process_exchange(ledger, a)), b)
              /\ \A a \in CancelArgs :
                    a.escrow_acc # b =>
                       Untouched(ledger, Commit(ledger, process_cancel_escrow(ledger, a)), b)

\* An Exchange on one record has succeeded while another record stays
\* initialized, its temp account under the derived address with the amount
\* it had at InitEscrow.
OtherRecordIntact ==
    /\ result.op = "Exchange" /\ result.err = "Ok"
    /\ ledger.esc[result.escrow] = DeletedEscrow
    /\ \E b \in EscrowAccounts \ {result.escrow} :
          /\ ledger.esc[b].is_initialized
          /\ HeldByPda(ledger, b)
          /\ Amt(ledger, ledger.esc[b].temp_token_account_pubkey) = lockedAtInit[b]


\* The lamports of the accounts of set K in ledger s.
RECURSIVE LamportSum(_, _)
LamportSum(s, K) ==
    IF K = {} THEN 0
    ELSE LET k == CHOOSE x \in K : TRUE IN s.lam[k] + LamportSum(s, K \ {k})

\* A successful call that closed temp account t and deleted record e,
\* crediting the accounts of set C: t and e hold no lamports, the lamports
\* of e, t and C together are what they were, and exactly the former
\* lamports of t and e have been added to C.
DepositsMoved(pre, post, e, t, C) ==
    /\ post.lam[e] = 0 /\ post.lam[t] = 0
    /\ LamportSum(post, {e, t} \cup C) = LamportSum(pre, {e, t} \cup C)
    /\ LamportSum(post, C \ {e, t})
          = LamportSum(pre, C \ {e, t}) + pre.lam[t] + pre.lam[e]
    /\ \A k \in Lamported \ ({e, t} \cup C) : post.lam[k] = pre.lam[k]

\* No step changes the lamports of the whole ledger.
DepositStep == LamportSum(ledger', Lamported) = LamportSum(ledger, Lamported)

\* C21: storage deposits are conserved.  In every successful Exchange, which
\* credits the initializer's main account, and every successful Cancel,
\* which credits the account supplied as the initializer's X account and
\* the initializer's main account, the lamports of the record, the temp
\* account and the credited accounts together are the same after the call
\* as before: the temp account and the record end at zero and exactly their
\* former lamports appear in the credited accounts.  No invocation,
\* successful or failed, and no step of the ledger creates or destroys
\* lamports.
DepositsConserved ==
    /\ [][DepositStep]_vars
    /\ [](result = Idle =>
            /\ \A a \in ExchangeArgs :
                  LET r == process_exchange(ledger, a)
                      post == Commit(ledger, r)
                  IN  /\ LamportSum(post, Lamported) = LamportSum(ledger, Lamported)
                      /\ IsOk(r) =>
                            DepositsMoved(ledger, post, a.escrow_acc,
                                          a.pda_temp_x_acc, {a.initializer_main_acc})
            /\ \A a \in CancelArgs :
                  LET r == process_cancel_escrow(ledger, a)
                      post == Commit(ledger, r)
                  IN  /\ LamportSum(post, Lamported) = LamportSum(ledger, Lamported)
                      /\ IsOk(r) =>
                            DepositsMoved(ledger, post, a.escrow_acc, a.temp_x_acc,
                                          {a.initializer_x_acc, a.initializer_main_acc})
            /\ \A a \in InitArgs :
                  Commit(ledger, process_init_escrow(ledger, a)).lam = ledger.lam)

\* Both records have been consumed, the second by a Cancel: their lamports
\* and those of their temp accounts are gone from them and the ledger holds
\* as many lamports as at the start.
DepositsAllReclaimed ==
    /\ result.op = "Cancel" /\ result.err = "Ok"
    /\ ledger.esc["esc1"] = DeletedEscrow /\ ledger.esc["esc2"] = DeletedEscrow
    /\ ledger.lam["esc1"] = 0 /\ ledger.lam["esc2"] = 0
    /\ ledger.lam["tmpX"] = 0
    /\ ledger.lam["alice"] > InitLedger.lam["alice"]
    /\ LamportSum(ledger, Lamported) = LamportSum(InitLedger, Lamported)

=============================================================================
